---- MODULE Spec2Model ----
(***************************************************************************)
(* A model of the retrieval core of tds-virtual-ta: the FAISSIndex class   *)
(* (app/models/faiss_index.py), i.e. a flat inner-product vector index, a  *)
(* parallel metadata list, their persisted file pair, thresholded top-k    *)
(* search and excerpt de-duplication; and of the ingestion scripts         *)
(* (scr/create_vector_db_openai.py, scr/create_vector_db_manual.py):       *)
(* chunk_by_tokens, embed_text, safe_embed, get_source, ingest_dir,        *)
(* index_batch and the persist step; and of the chat route                 *)
(* (app/api/routes.py) that searches the index for each request.           *)
(*                                                                         *)
(* Numbers: vectors have integer coordinates and scores are their integer  *)
(* inner products; the comparison operators of the code are kept as they   *)
(* are.  Positions are 0-based as in the code; TLA+ sequences are 1-based, *)
(* so position p of the code is element p + 1 of a sequence.               *)
(***************************************************************************)
EXTENDS Integers, Sequences, FiniteSets

VARIABLES
    index,                 \* self.index: [d, xb], xb the stored vectors in order
    metadata,              \* self.metadata: the list of metadata records
    similarity_threshold,  \* self.similarity_threshold
    files,                 \* the two files at index_path and meta_path
    call,                  \* the last call made on the object and its outcome
    saved,                 \* what the last save_index call wrote (history)
    tieAscending,          \* the search library's order among equal scores
    tieKeepLow,            \* which of several equal scores it keeps at the cut
    chunker,               \* one chunk_by_tokens call: its arguments and locals
    embedder,              \* one embedding call: the safe_embed frames and outcome
    ingest,                \* one run of an ingestion script
    disk,                  \* the files of res/model/, by path
    chat                   \* the chat requests being handled, one record each

vars ==
    <<index, metadata, similarity_threshold, files, call, saved,
      tieAscending, tieKeepLow, chunker, embedder, ingest, disk, chat>>

\* The state of the FAISSIndex object, and the state of the ingestion scripts.
retrievalVars ==
    <<index, metadata, similarity_threshold, files, call, saved,
      tieAscending, tieKeepLow>>

pipelineVars ==
    <<chunker, embedder, ingest>>

\* The directory the scripts write and the server reads, and the requests
\* of the chat route.
deployVars ==
    <<disk, chat>>

(***************************************************************************)
(* Bounds of the model.                                                    *)
(***************************************************************************)
\* The dimension the index is constructed with (embed_dim).
Dim ==
    2

\* The most vectors, and the most metadata records, an index holds.
MaxStored ==
    2

\* The most vectors, and the most records, of the index whose hits
\* generate_excerpts resolves.
MaxRecords ==
    3

\* The most rows, and the most records, of one add_embeddings call.
MaxBatch ==
    2

\* The largest k a search is asked for.
MaxK ==
    3

\* The largest similarity threshold an index is constructed with.
MaxThreshold ==
    1

\* The longest hit list handed to generate_excerpts.
MaxHits ==
    3

\* The longest token stream handed to chunk_by_tokens.
MaxTokens ==
    25

\* The largest max_tokens, and the largest overlap, of a chunk_by_tokens call.
MaxWindow ==
    10

MaxOverlap ==
    11

\* The longest text handed to an embedding function, in characters.
MaxText ==
    3

\* The most nested safe_embed calls the interpreter allows (its recursion
\* limit); one more raises RecursionError.
RecursionLimit ==
    3

\* The largest norm of a vector the embedding service returns.
MaxNorm ==
    2

\* The most files an ingestion run walks, and the most tokens of a file.
MaxDocs ==
    2

MaxDocTokens ==
    3

\* max_tokens and overlap of the chunk_by_tokens call of ingest_dir (8000
\* and 200 in the scripts), and BATCH_SIZE (16 in the scripts), scaled down.
IngestWindow ==
    2

IngestOverlap ==
    1

BatchSize ==
    2

\* The most embedding calls that fail in one ingestion run.
MaxFailures ==
    2

(***************************************************************************)
(* Characters and strings.  A string is a sequence of characters.          *)
(***************************************************************************)
QUOTE ==
    "\""

BSL ==
    "\\"

NL ==
    "\n"

(***************************************************************************)
(* Vectors.                                                                *)
(***************************************************************************)
\* The vector of width w with c at coordinate i and 0 elsewhere.
Axis(w, i, c) ==
    [j \in 1..w |-> IF j = i THEN c ELSE 0]

\* The rows add_embeddings is called with, of the index's width.
VSet ==
    {Axis(Dim, 1, 1), Axis(Dim, Dim, 1), Axis(Dim, 1, -1)}

\* A row of another width.
WideRow ==
    Axis(Dim + 1, 1, 1)

\* The queries search is called with.
QSet ==
    {Axis(Dim, 1, 1), [j \in 1..Dim |-> 1], Axis(Dim, Dim, -1)}

(***************************************************************************)
(* Metadata records: {source, chunk_id, text}.                             *)
(***************************************************************************)
MetaRecord(source, chunk_id, text) ==
    [source |-> source, chunk_id |-> chunk_id, text |-> text]

Doc1 ==
    <<"d", "o", "c", "1">>

Doc2 ==
    <<"d", QUOTE, "2">>

\* Two records of the same (source, chunk_id) with different texts, and a
\* record of another source with the same chunk_id; the strings hold the
\* characters JSON escapes.
RSet ==
    { MetaRecord(Doc1, 12, <<"a">>),
      MetaRecord(Doc1, 12, <<BSL, "n", NL, QUOTE>>),
      MetaRecord(Doc2, 12, <<"a", BSL>>) }

\* All sequences over S of length at most n.
SeqsUpTo(S, n) ==
    UNION {[1..m -> S] : m \in 0..n}

\* The embeddings argument: a two-dimensional array, [w, rows].
Embeddings(w, rows) ==
    [w |-> w, rows |-> rows]

EmbeddingBatches ==
    {Embeddings(Dim, rows) : rows \in SeqsUpTo(VSet, MaxBatch)}
        \cup {Embeddings(Dim + 1, rows) : rows \in SeqsUpTo({WideRow}, MaxBatch) \ {<<>>}}

MetadataBatches ==
    SeqsUpTo(RSet, MaxBatch)

\* Batches of copies of one row, and of one record, for the calls whose
\* result does not read the vectors, or the records.
PlainEmbeddingBatches ==
    {Embeddings(Dim, rows) : rows \in SeqsUpTo({Axis(Dim, 1, 1)}, MaxBatch)}

PlainMetadataBatches ==
    SeqsUpTo({MetaRecord(Doc1, 0, <<"a">>)}, MaxBatch)

(***************************************************************************)
(* The metadata file: json.dump / json.load of the list of records.        *)
(* A dumped record keeps its three fields, each as the characters JSON     *)
(* writes for it.                                                          *)
(***************************************************************************)
\* An encoder that escapes quotes and line breaks and forgets the backslash.
EscapeCharKeepingBackslash(c) ==
    IF c = QUOTE THEN <<BSL, QUOTE>>
    ELSE IF c = NL THEN <<BSL, "n">>
    ELSE <<c>>

\* What JSON writes for one character of a string (ensure_ascii encoder).
EscapeChar(c) ==
    IF c = QUOTE THEN <<BSL, QUOTE>>
    ELSE IF c = BSL THEN <<BSL, BSL>>
    ELSE IF c = NL THEN <<BSL, "n">>
    ELSE <<c>>

RECURSIVE EscapeChars(_)
EscapeChars(s) ==
    IF s = <<>> THEN <<>> ELSE EscapeChar(Head(s)) \o EscapeChars(Tail(s))

\* A string as JSON writes it: quoted, with its characters escaped.
JsonDumpString(s) ==
    <<QUOTE>> \o EscapeChars(s) \o <<QUOTE>>

\* The character an escape \c stands for.
UnescapeChar(c) ==
    IF c = "n" THEN NL ELSE c

\* The JSON string scanner: from character i of t up to the closing quote.
RECURSIVE ScanString(_, _)
ScanString(t, i) ==
    IF i > Len(t) \/ t[i] = QUOTE THEN <<>>
    ELSE IF t[i] = BSL /\ i < Len(t)
        THEN <<UnescapeChar(t[i + 1])>> \o ScanString(t, i + 2)
    ELSE <<t[i]>> \o ScanString(t, i + 1)

JsonLoadString(t) ==
    ScanString(t, 2)

DigitChars ==
    <<"0", "1", "2", "3", "4", "5", "6", "7", "8", "9">>

\* A non-negative integer as JSON writes it: its decimal digits.
RECURSIVE JsonDumpInt(_)
JsonDumpInt(n) ==
    IF n < 10 THEN <<DigitChars[n + 1]>>
    ELSE JsonDumpInt(n \div 10) \o <<DigitChars[(n % 10) + 1]>>

DigitValue(c) ==
    (CHOOSE i \in 1..10 : DigitChars[i] = c) - 1

RECURSIVE JsonLoadInt(_)
JsonLoadInt(t) ==
    IF t = <<>> THEN 0
    ELSE 10 * JsonLoadInt(SubSeq(t, 1, Len(t) - 1)) + DigitValue(t[Len(t)])

JsonDump(records) ==
    [i \in 1..Len(records) |->
        [source |-> JsonDumpString(records[i].source),
         chunk_id |-> JsonDumpInt(records[i].chunk_id),
         text |-> JsonDumpString(records[i].text)]]

JsonLoad(dumped) ==
    [i \in 1..Len(dumped) |->
        MetaRecord(JsonLoadString(dumped[i].source),
                   JsonLoadInt(dumped[i].chunk_id),
                   JsonLoadString(dumped[i].text))]

(***************************************************************************)
(* The index file: faiss.write_index / faiss.read_index of a flat index.   *)
(* The file holds the dimension, the vector count and the coordinates of   *)
(* all vectors one after the other.                                        *)
(***************************************************************************)
RECURSIVE Flatten(_)
Flatten(xb) ==
    IF xb = <<>> THEN <<>> ELSE Head(xb) \o Flatten(Tail(xb))

\* faiss.IndexFlatIP(d): an empty index of dimension d.
IndexFlatIP(d) ==
    [d |-> d, xb |-> <<>>]

ntotal(ix) ==
    Len(ix.xb)

WriteIndex(ix) ==
    [exists |-> TRUE, d |-> ix.d, ntotal |-> ntotal(ix), codes |-> Flatten(ix.xb)]

ReadIndex(f) ==
    [d |-> f.d,
     xb |-> [i \in 1..f.ntotal |-> [j \in 1..f.d |-> f.codes[(i - 1) * f.d + j]]]]

NoIndexFile ==
    [exists |-> FALSE, d |-> 0, ntotal |-> 0, codes |-> <<>>]

NoMetaFile ==
    [exists |-> FALSE, records |-> <<>>]

WriteMeta(records) ==
    [exists |-> TRUE, records |-> JsonDump(records)]

Files(index_file, meta_file) ==
    [index_path |-> index_file, meta_path |-> meta_file]

\* The file pairs the paths may hold when the process starts: nothing, one
\* file of the two, a pair written by an earlier run, or a pair built for an
\* embedding model of another dimension.
InitialFiles ==
    LET ix == [d |-> Dim, xb |-> <<Axis(Dim, 1, 1)>>]
        wide == [d |-> Dim + 1, xb |-> <<WideRow>>]
        md == <<MetaRecord(Doc1, 3, <<"a">>)>>
    IN  { Files(NoIndexFile, NoMetaFile),
          Files(WriteIndex(ix), NoMetaFile),
          Files(NoIndexFile, WriteMeta(md)),
          Files(WriteIndex(ix), WriteMeta(md)),
          Files(WriteIndex(wide), WriteMeta(md)) }

(***************************************************************************)
(* FAISSIndex: construction, load_index, add_embeddings, save_index.       *)
(***************************************************************************)
\* The outcome of a call: its name, the exception it raised ("none" when it
\* returned), and for search / generate_excerpts the arguments and result;
\* repeated marks a search made right after a search of the same arguments.
Call(op, err) ==
    [op |-> op, err |-> err, query |-> <<>>, k |-> 0, hits |-> <<>>,
     repeated |-> FALSE, relevant |-> <<>>, excerpts |-> <<>>]

\* load_index: both files present -> both are read; otherwise nothing changes.
LoadedIndexAlone(ix, f) ==
    IF f.index_path.exists THEN ReadIndex(f.index_path) ELSE ix

LoadedIndex(ix, f) ==
    IF f.index_path.exists /\ f.meta_path.exists THEN ReadIndex(f.index_path) ELSE ix

LoadedMetadata(md, f) ==
    IF f.index_path.exists /\ f.meta_path.exists THEN JsonLoad(f.meta_path.records) ELSE md

\* __init__: an empty index of embed_dim, an empty list, then load_index().
Construct ==
    /\ index' = LoadedIndex(IndexFlatIP(Dim), files)
    /\ metadata' = LoadedMetadata(<<>>, files)
    /\ call' = Call("construct", "none")
    /\ UNCHANGED <<similarity_threshold, files, saved, tieAscending, tieKeepLow>>
    /\ UNCHANGED pipelineVars
    /\ UNCHANGED deployVars

\* load_index() called on the live object.
LoadIndex ==
    /\ index' = LoadedIndex(index, files)
    /\ metadata' = LoadedMetadata(metadata, files)
    /\ call' = Call("load_index", "none")
    /\ UNCHANGED <<similarity_threshold, files, saved, tieAscending, tieKeepLow>>
    /\ UNCHANGED pipelineVars
    /\ UNCHANGED deployVars

\* index.add(x): faiss asserts the array's width is the index's dimension,
\* then appends the rows.
IndexAddError(ix, embeddings) ==
    IF embeddings.w # ix.d THEN "AssertionError" ELSE "none"

IndexAddInFront(ix, embeddings) ==
    [ix EXCEPT !.xb = embeddings.rows \o @]

IndexAdd(ix, embeddings) ==
    [ix EXCEPT !.xb = @ \o embeddings.rows]

\* metadata.extend(records)
Extend(md, records) ==
    md \o records

\* add_embeddings(embeddings, metadata): index.add, then metadata.extend; an
\* exception of index.add leaves before the list is extended.
AddEmbeddings(embeddings, records) ==
    LET err == IndexAddError(index, embeddings)
    IN  /\ index' = IF err = "none" THEN IndexAdd(index, embeddings) ELSE index
        /\ metadata' = IF err = "none" THEN Extend(metadata, records) ELSE metadata
        /\ call' = Call("add_embeddings", err)
        /\ UNCHANGED <<similarity_threshold, files, saved, tieAscending, tieKeepLow>>
        /\ UNCHANGED pipelineVars
        /\ UNCHANGED deployVars

\* save_index(): write_index, then json.dump of the metadata.
SaveIndex ==
    /\ files' = Files(WriteIndex(index), WriteMeta(metadata))
    /\ saved' = [valid |-> TRUE, index |-> index, metadata |-> metadata]
    /\ call' = Call("save_index", "none")
    /\ UNCHANGED <<index, metadata, similarity_threshold, tieAscending, tieKeepLow>>
    /\ UNCHANGED pipelineVars
    /\ UNCHANGED deployVars

NothingSaved ==
    [valid |-> FALSE, index |-> IndexFlatIP(Dim), metadata |-> <<>>]

\* The scripts at rest: no chunk_by_tokens call, no embedding call and no
\* ingestion run is under way.
NoChunker ==
    [tokens |-> <<>>, max_tokens |-> 0, overlap |-> 0, start |-> 0,
     chunks |-> <<>>, pc |-> "idle"]

NoEmbedder ==
    [caller |-> "none", stack |-> <<>>, status |-> "idle",
     result |-> [kind |-> "none", x |-> <<>>], halves |-> <<>>,
     degenerate |-> FALSE, failure |-> "none"]

NoIngest ==
    [script |-> "none", docs |-> <<>>, file |-> 0, chunks |-> <<>>, idx |-> 0,
     batch_texts |-> <<>>, batch_meta |-> <<>>, batch_origin |-> <<>>,
     batches |-> <<>>,
     xb |-> <<>>, metadata |-> <<>>, origin |-> <<>>,
     failed |-> {}, no_valid |-> 0, pc |-> "idle", error |-> "none", run |-> 0]

PipelineIdle ==
    /\ chunker = NoChunker
    /\ embedder = NoEmbedder
    /\ ingest = NoIngest

\* Config.FAISS_INDEX_PATH and Config.METADATA_PATH, the paths the server's
\* FAISSIndex is constructed with.
FAISS_INDEX_PATH ==
    "res/model/tds-virtual-ta.faiss"

METADATA_PATH ==
    "res/model/metadata.json"

\* The paths the scripts' __main__ writes the index and the metadata to.
ScriptIndexPath ==
    "res/model/virtual-ta.faiss"

ScriptMetaPath ==
    "res/model/metadata.json"

IndexPaths ==
    {FAISS_INDEX_PATH, ScriptIndexPath}

MetaPaths ==
    {METADATA_PATH, ScriptMetaPath}

\* res/model/ with no file in it.
EmptyDisk ==
    [p \in IndexPaths \cup MetaPaths |->
        IF p \in IndexPaths THEN NoIndexFile ELSE NoMetaFile]

\* No chat request.
NoChat ==
    <<>>

\* Nothing on disk and no request: the state of the directory and of the
\* route where neither plays a part.
DeployIdle ==
    /\ disk = EmptyDisk
    /\ chat = NoChat

\* The add_embeddings calls with the arguments of E and R that keep the index
\* within max vectors and max records.
AddWithin(E, R, max) ==
    \E embeddings \in E, records \in R :
        /\ ntotal(index) + Len(embeddings.rows) <= max
        /\ Len(metadata) + Len(records) <= max
        /\ AddEmbeddings(embeddings, records)

AddStep ==
    AddWithin(EmbeddingBatches, MetadataBatches, MaxStored)

(***************************************************************************)
(* Spec: the life of one index and its file pair.  The state after the     *)
(* construction of a FAISSIndex over the files found at start.             *)
(***************************************************************************)
Init ==
    /\ files \in InitialFiles
    /\ index = LoadedIndex(IndexFlatIP(Dim), files)
    /\ metadata = LoadedMetadata(<<>>, files)
    /\ similarity_threshold = MaxThreshold
    /\ call = Call("construct", "none")
    /\ saved = NothingSaved
    /\ tieAscending = TRUE
    /\ tieKeepLow = TRUE
    /\ PipelineIdle
    /\ DeployIdle

Next ==
    \/ Construct
    \/ LoadIndex
    \/ AddStep
    \/ SaveIndex

Spec ==
    Init /\ [][Next]_vars

(***************************************************************************)
(* search: the library's top-k scan, then the threshold filter.            *)
(***************************************************************************)
\* The inner product of two vectors of the same width.
RECURSIVE InnerProductTo(_, _, _)
InnerProductTo(v, q, j) ==
    IF j = 0 THEN 0 ELSE InnerProductTo(v, q, j - 1) + v[j] * q[j]

InnerProduct(v, q) ==
    InnerProductTo(v, q, Len(v))

\* The score of the vector stored at position p (0-based).
ScoreAt(ix, q, p) ==
    InnerProduct(ix.xb[p + 1], q)

Positions(ix) ==
    0..(ntotal(ix) - 1)

\* The score the library gives a result slot it could not fill (the lowest
\* float): below every score and every threshold of the model.
NeutralScore ==
    (0 - Dim) - 1

Hit(idx, score) ==
    [idx |-> idx, score |-> score]

\* The library keeps the k best positions; among equal scores at the cut it
\* keeps the lower or the higher positions, by its build.
KeptBefore(ix, q, i, j) ==
    \/ ScoreAt(ix, q, i) > ScoreAt(ix, q, j)
    \/ /\ ScoreAt(ix, q, i) = ScoreAt(ix, q, j)
       /\ IF tieKeepLow THEN i < j ELSE i > j

Kept(ix, q, k) ==
    {i \in Positions(ix) :
        Cardinality({j \in Positions(ix) : KeptBefore(ix, q, j, i)}) < k}

\* A library whose order among equal scores changes from one call to the next.
ListedBeforeByLastCall(ix, q, i, j) ==
    \/ ScoreAt(ix, q, i) > ScoreAt(ix, q, j)
    \/ /\ ScoreAt(ix, q, i) = ScoreAt(ix, q, j)
       /\ IF call.op = "search" THEN i > j ELSE i < j

\* It lists them by descending score; among equal scores by ascending or by
\* descending position, by its build.
ListedBefore(ix, q, i, j) ==
    \/ ScoreAt(ix, q, i) > ScoreAt(ix, q, j)
    \/ /\ ScoreAt(ix, q, i) = ScoreAt(ix, q, j)
       /\ IF tieAscending THEN i < j ELSE i > j

\* index.search(query.reshape(1, -1), k): k result slots (label, distance),
\* the kept positions in order, then the unfilled slots, label -1.
IndexSearch(ix, q, k) ==
    LET kept == Kept(ix, q, k)
        rank(i) == Cardinality({j \in kept : ListedBefore(ix, q, j, i)}) + 1
    IN  [s \in 1..k |->
            IF s <= Cardinality(kept)
            THEN LET p == CHOOSE i \in kept : rank(i) = s
                 IN  Hit(p, ScoreAt(ix, q, p))
            ELSE Hit(-1, NeutralScore)]

\* The library asserts the query's width and k > 0.
IndexSearchError(ix, q, k) ==
    IF Len(q) # ix.d \/ k <= 0 THEN "AssertionError" ELSE "none"

\* A filter that drops a score equal to the threshold.
PassesThresholdStrictly(score, threshold) ==
    score > threshold

\* if score >= self.similarity_threshold: the slot is a result.
PassesThreshold(score, threshold) ==
    score >= threshold

RECURSIVE FilterSlots(_, _)
FilterSlots(slots, threshold) ==
    IF slots = <<>> THEN <<>>
    ELSE (IF PassesThreshold(Head(slots).score, threshold)
          THEN <<Head(slots)>> ELSE <<>>)
         \o FilterSlots(Tail(slots), threshold)

\* search(query_embedding, k): the slots in order that pass the threshold.
SearchResults(ix, q, k, threshold) ==
    FilterSlots(IndexSearch(ix, q, k), threshold)

Search(q, k) ==
    LET err == IndexSearchError(index, q, k)
    IN  /\ call' = [Call("search", err) EXCEPT
                       !.query = q,
                       !.k = k,
                       !.hits = IF err = "none"
                                THEN SearchResults(index, q, k, similarity_threshold)
                                ELSE <<>>,
                       !.repeated = (call.op = "search" /\ call.query = q /\ call.k = k)]
        /\ UNCHANGED <<index, metadata, similarity_threshold, files, saved,
                       tieAscending, tieKeepLow>>
        /\ UNCHANGED pipelineVars
        /\ UNCHANGED deployVars

SearchStep ==
    \E q \in QSet, k \in 1..MaxK : Search(q, k)

ThresholdSet ==
    (0 - 1)..MaxThreshold

(***************************************************************************)
(* SpecSearch: add_embeddings and search on an index constructed empty,    *)
(* for every threshold and every build of the search library.              *)
(***************************************************************************)
InitSearch ==
    /\ files = Files(NoIndexFile, NoMetaFile)
    /\ index = LoadedIndex(IndexFlatIP(Dim), files)
    /\ metadata = LoadedMetadata(<<>>, files)
    /\ similarity_threshold \in ThresholdSet
    /\ call = Call("construct", "none")
    /\ saved = NothingSaved
    /\ tieAscending \in BOOLEAN
    /\ tieKeepLow \in BOOLEAN
    /\ PipelineIdle
    /\ DeployIdle

AddVectorsStep ==
    AddWithin(EmbeddingBatches, PlainMetadataBatches, MaxStored)

NextSearch ==
    \/ AddVectorsStep
    \/ SearchStep

SpecSearch ==
    InitSearch /\ [][NextSearch]_vars

(***************************************************************************)
(* generate_excerpts: the hits' records, one per (source, chunk_id).       *)
(***************************************************************************)
\* (m["source"], m["chunk_id"])
Key(m) ==
    <<m.source, m.chunk_id>>

\* (m["text"], m)
Excerpt(m) ==
    <<m.text, m>>

\* self.metadata[idx] raises IndexError past the end of the list (the hits
\* of search have idx >= 0).
Resolvable(md, idx) ==
    0 <= idx /\ idx < Len(md)

\* A test that takes the chunk_id alone for the identity of a chunk.
IsNewChunkId(m, seen) ==
    m.chunk_id \notin {key[2] : key \in seen}

\* Whether (source, chunk_id) of m is new to seen_texts.
IsNewKey(m, seen) ==
    Key(m) \notin seen

\* The loop over relevant from hit i on, with seen_texts and excerpts so far.
RECURSIVE ExcerptsFrom(_, _, _, _, _)
ExcerptsFrom(md, relevant, i, seen, excerpts) ==
    IF i > Len(relevant) THEN excerpts
    ELSE LET m == md[relevant[i].idx + 1]
         IN  IF IsNewKey(m, seen)
             THEN ExcerptsFrom(md, relevant, i + 1, seen \cup {Key(m)},
                               Append(excerpts, Excerpt(m)))
             ELSE ExcerptsFrom(md, relevant, i + 1, seen, excerpts)

GenerateExcerptsError(md, relevant) ==
    IF \E i \in 1..Len(relevant) : ~Resolvable(md, relevant[i].idx)
    THEN "IndexError" ELSE "none"

GenerateExcerpts(relevant) ==
    LET err == GenerateExcerptsError(metadata, relevant)
    IN  /\ call' = [Call("generate_excerpts", err) EXCEPT
                       !.relevant = relevant,
                       !.excerpts = IF err = "none"
                                    THEN ExcerptsFrom(metadata, relevant, 1, {}, <<>>)
                                    ELSE <<>>]
        /\ UNCHANGED <<index, metadata, similarity_threshold, files, saved,
                       tieAscending, tieKeepLow>>
        /\ UNCHANGED pipelineVars
        /\ UNCHANGED deployVars

\* The hit lists of the model: up to MaxHits hits at stored positions, in any
\* order and with repetitions, as the concatenated results of two searches.
HitLists(ix) ==
    SeqsUpTo({Hit(p, similarity_threshold) : p \in Positions(ix)}, MaxHits)

GenerateExcerptsStep ==
    \E relevant \in HitLists(index) : GenerateExcerpts(relevant)

(***************************************************************************)
(* SpecExcerpts: add_embeddings and generate_excerpts on an index          *)
(* constructed empty.                                                      *)
(***************************************************************************)
InitExcerpts ==
    /\ files = Files(NoIndexFile, NoMetaFile)
    /\ index = LoadedIndex(IndexFlatIP(Dim), files)
    /\ metadata = LoadedMetadata(<<>>, files)
    /\ similarity_threshold = MaxThreshold
    /\ call = Call("construct", "none")
    /\ saved = NothingSaved
    /\ tieAscending = TRUE
    /\ tieKeepLow = TRUE
    /\ PipelineIdle
    /\ DeployIdle

AddRecordsStep ==
    AddWithin(PlainEmbeddingBatches, MetadataBatches, MaxRecords)

NextExcerpts ==
    \/ AddRecordsStep
    \/ GenerateExcerptsStep

SpecExcerpts ==
    InitExcerpts /\ [][NextExcerpts]_vars

(***************************************************************************)
(* chunk_by_tokens (scr/create_vector_db_openai.py and                     *)
(* scr/create_vector_db_manual.py, the same code in both; chunk_text is    *)
(* the same loop over words).  A token stream is the sequence of token ids *)
(* ENC.encode returns; the model numbers the tokens 1..n so that every     *)
(* position of the stream is told apart.  A chunk is recorded as the       *)
(* tokens ENC.decode is given.                                             *)
(***************************************************************************)
TokenStream(n) ==
    [i \in 1..n |-> i]

\* Python's s[a:b]: a negative bound counts from the end, and both bounds
\* are clamped to 0..len(s).
PyBound(i, n) ==
    IF i < 0 THEN (IF i + n < 0 THEN 0 ELSE i + n) ELSE (IF i > n THEN n ELSE i)

PySlice(s, a, b) ==
    LET lo == PyBound(a, Len(s))
        hi == PyBound(b, Len(s))
    IN  IF hi <= lo THEN <<>> ELSE SubSeq(s, lo + 1, hi)

ChunkEndOneShort(start, max_tokens, n) ==
    IF (start + max_tokens) - 1 < n THEN (start + max_tokens) - 1 ELSE n

\* end = min(start + max_tokens, len(tokens))
ChunkEnd(start, max_tokens, n) ==
    IF start + max_tokens < n THEN start + max_tokens ELSE n

ChunkStrideWithoutOverlap(max_tokens, overlap) ==
    max_tokens

ChunkStridePastOverlap(max_tokens, overlap) ==
    (max_tokens - overlap) + 1

\* start += max_tokens - overlap
ChunkStride(max_tokens, overlap) ==
    max_tokens - overlap

\* The call chunk_by_tokens(text, max_tokens, overlap) before its loop.
ChunkCall(tokens, max_tokens, overlap) ==
    [tokens |-> tokens, max_tokens |-> max_tokens, overlap |-> overlap,
     start |-> 0, chunks |-> <<>>, pc |-> "loop"]

\* The most iterations of the loop the model follows; a loop that ends has
\* ended before, since every iteration that ends advances start by 1 or more.
MaxIterations ==
    MaxTokens + 1

\* The body of the loop: the window at start is appended, start moves on.
ChunkStep(c) ==
    [c EXCEPT
        !.chunks = Append(@, PySlice(c.tokens, c.start,
                                     ChunkEnd(c.start, c.max_tokens, Len(c.tokens)))),
        !.start = @ + ChunkStride(c.max_tokens, c.overlap)]

\* One iteration of "while start < len(tokens)".
ChunkIterate ==
    /\ chunker.pc = "loop"
    /\ chunker.start < Len(chunker.tokens)
    /\ Len(chunker.chunks) < MaxIterations
    /\ chunker' = ChunkStep(chunker)
    /\ UNCHANGED <<embedder, ingest>>
    /\ UNCHANGED retrievalVars
    /\ UNCHANGED deployVars

\* The loop condition fails: return chunks.
ChunkReturn ==
    /\ chunker.pc = "loop"
    /\ ~(chunker.start < Len(chunker.tokens))
    /\ chunker' = [chunker EXCEPT !.pc = "done"]
    /\ UNCHANGED <<embedder, ingest>>
    /\ UNCHANGED retrievalVars
    /\ UNCHANGED deployVars

\* The FAISSIndex object is not part of the scripts' runs.
RetrievalIdle ==
    /\ files = Files(NoIndexFile, NoMetaFile)
    /\ index = IndexFlatIP(Dim)
    /\ metadata = <<>>
    /\ similarity_threshold = MaxThreshold
    /\ call = Call("construct", "none")
    /\ saved = NothingSaved
    /\ tieAscending = TRUE
    /\ tieKeepLow = TRUE

(***************************************************************************)
(* SpecChunk: one chunk_by_tokens call, for every token stream of up to    *)
(* MaxTokens tokens, every max_tokens >= 1 and every overlap >= 0.         *)
(***************************************************************************)
InitChunk ==
    /\ RetrievalIdle
    /\ DeployIdle
    /\ \E n \in 0..MaxTokens, max_tokens \in 1..MaxWindow, overlap \in 0..MaxOverlap :
          chunker = ChunkCall(TokenStream(n), max_tokens, overlap)
    /\ embedder = NoEmbedder
    /\ ingest = NoIngest

NextChunk ==
    \/ ChunkIterate
    \/ ChunkReturn

SpecChunk ==
    InitChunk /\ [][NextChunk]_vars

(***************************************************************************)
(* embed_text and safe_embed of the two ingestion scripts, and LLM.embed   *)
(* (app/models/llm.py).  The embedding service (the OpenAI embeddings      *)
(* endpoint, or the local SentenceTransformer of the manual script)        *)
(* answers each call with a vector or with an exception; the model         *)
(* follows every answer.                                                   *)
(*                                                                         *)
(* Numbers: a raw embedding has integer coordinates and an integer norm.   *)
(* A value the code computes by division is kept in fixed point, in units  *)
(* of 1 / UnitScale, so that a vector of norm 1.0 has the squared length   *)
(* UnitScale * UnitScale; UnitScale is a power of 2 large enough for the   *)
(* model's halvings to be exact.  A division 0 / 0 gives NaN, as numpy     *)
(* float32 arithmetic does.                                                *)
(***************************************************************************)
UnitScale ==
    2 ^ RecursionLimit

\* The entry points: safe_embed and embed_text of create_vector_db_openai,
\* safe_embed of create_vector_db_manual, LLM.embed.
Callers ==
    {"openai.safe_embed", "openai.embed_text", "manual.safe_embed", "llm.embed"}

\* A text of n characters; the characters are numbered to tell the halves
\* of a split apart.
TextOf(n) ==
    [i \in 1..n |-> i]

\* What an embedding function hands back: a list of numbers, a list of NaN,
\* or None.
Vector(x) ==
    [kind |-> "vector", x |-> x]

NaNVector ==
    [kind |-> "nan", x |-> <<>>]

None ==
    [kind |-> "none", x |-> <<>>]

\* openai.BadRequestError whose message holds "maximum context length".
ContextLengthError ==
    "BadRequestError: maximum context length"

\* Another BadRequestError, and an exception of another class.
OtherErrors ==
    {"BadRequestError: invalid input", "RateLimitError"}

\* The vectors the embedding service answers with.
RawEmbeddings ==
    {Axis(Dim, j, c) : j \in 1..Dim, c \in 0..MaxNorm}

\* np.linalg.norm(embedding); the raw vectors of the model have integer norms.
Norm(v) ==
    CHOOSE n \in 0..InnerProduct(v, v) : n * n = InnerProduct(v, v)

\* embedding / np.linalg.norm(embedding)
Normalized(v) ==
    IF Norm(v) = 0
    THEN NaNVector
    ELSE Vector([j \in 1..Len(v) |-> (v[j] * UnitScale) \div Norm(v)])

\* ((np.array(left) + np.array(right)) / 2).tolist()
Average(left, right) ==
    IF left.kind = "nan" \/ right.kind = "nan"
    THEN NaNVector
    ELSE Vector([j \in 1..Len(left.x) |-> (left.x[j] + right.x[j]) \div 2])

\* A safe_embed call in progress: its text, where it stands ("embed_text":
\* in the try block; "left", "right": in the recursive call for that half)
\* and the value of left once it is known.
Frame(text, phase, left) ==
    [text |-> text, phase |-> phase, left |-> left]

\* text[:mid] and text[mid:], mid = len(text) // 2
LeftHalf(text) ==
    PySlice(text, 0, Len(text) \div 2)

RightHalf(text) ==
    PySlice(text, Len(text) \div 2, Len(text))

EmbedCall(caller, text) ==
    [caller |-> caller, stack |-> <<Frame(text, "embed_text", None)>>,
     status |-> "running", result |-> None, halves |-> <<>>,
     degenerate |-> FALSE, failure |-> "none"]

\* An exception leaves every frame: no frame has a handler around its
\* recursive calls.
Raised(e, error) ==
    [e EXCEPT !.stack = <<>>, !.status = error]

Front(stack) ==
    SubSeq(stack, 1, Len(stack) - 1)

\* The innermost call returns v to the frames in stack: a caller waiting for
\* its left half goes on to embed the right half; a caller waiting for its
\* right half returns the average to its own caller; with no caller left the
\* call is over.
RECURSIVE Returned(_, _, _, _)
Returned(e, stack, v, halves) ==
    IF stack = <<>>
    THEN [e EXCEPT !.stack = <<>>, !.status = "returned", !.result = v, !.halves = halves]
    ELSE LET parent == stack[Len(stack)]
         IN  IF parent.phase = "left"
             THEN [e EXCEPT !.stack =
                      Front(stack) \o
                      <<Frame(parent.text, "right", v),
                        Frame(RightHalf(parent.text), "embed_text", None)>>]
             ELSE Returned(e, Front(stack), Average(parent.left, v), <<parent.left, v>>)

\* safe_embed of the openai script after embed_text raised the context length
\* error: the recursive call on the left half, if the interpreter allows one
\* more frame.
Split(e) ==
    LET top == e.stack[Len(e.stack)]
    IN  IF Len(e.stack) >= RecursionLimit
        THEN Raised(e, "RecursionError")
        ELSE [e EXCEPT !.stack =
                 Front(e.stack) \o
                 <<Frame(top.text, "left", None),
                   Frame(LeftHalf(top.text), "embed_text", None)>>]

\* The service answers the embedding call of the innermost frame with a
\* vector: embed_text (and LLM.embed) divides it by its norm and returns.
EmbedReturns ==
    /\ embedder.status = "running"
    /\ \E raw \in RawEmbeddings :
          embedder' =
              Returned([embedder EXCEPT !.degenerate = @ \/ Norm(raw) = 0],
                       Front(embedder.stack), Normalized(raw), <<>>)
    /\ UNCHANGED <<chunker, ingest>>
    /\ UNCHANGED retrievalVars
    /\ UNCHANGED deployVars

\* The service answers with an exception.  embed_text of the manual script
\* catches every exception and returns None, which its safe_embed returns
\* (the handler of that safe_embed, lines 77-85, is never entered); embed_text
\* of the openai script and LLM.embed let it through; safe_embed of the
\* openai script splits on the context length error and re-raises the rest.
EmbedFails ==
    /\ embedder.status = "running"
    /\ \E error \in OtherErrors \cup {ContextLengthError} :
          embedder' =
              IF embedder.caller = "manual.safe_embed"
              THEN Returned([embedder EXCEPT !.failure = error], <<>>, None, <<>>)
              ELSE IF embedder.caller = "openai.safe_embed" /\ error = ContextLengthError
                   THEN Split(embedder)
                   ELSE Raised([embedder EXCEPT !.failure = error], error)
    /\ UNCHANGED <<chunker, ingest>>
    /\ UNCHANGED retrievalVars
    /\ UNCHANGED deployVars

(***************************************************************************)
(* SpecEmbed: one call of an embedding function, for every entry point,    *)
(* every text of up to MaxText characters and every answer of the service. *)
(***************************************************************************)
InitEmbed ==
    /\ RetrievalIdle
    /\ DeployIdle
    /\ chunker = NoChunker
    /\ \E caller \in Callers, n \in 0..MaxText :
          embedder = EmbedCall(caller, TextOf(n))
    /\ ingest = NoIngest

NextEmbed ==
    \/ EmbedReturns
    \/ EmbedFails

SpecEmbed ==
    InitEmbed /\ [][NextEmbed]_vars

(***************************************************************************)
(* The ingestion run of a script: ingest_dir, get_source, index_batch and  *)
(* the persist step of __main__, over the module-level index and metadata  *)
(* list.  The files of the walk are those with a supported extension, in   *)
(* the order os.walk yields them.  The embedding service answers a text    *)
(* with a vector that is a fixed function of the text, or fails.           *)
(***************************************************************************)
Scripts ==
    {"openai", "manual"}

\* A file of the walk: the directory it lies in ("discourse_content",
\* "discourse_posts" or another), the state of the thread JSON file its
\* provenance is looked up in, and its tokens.  Its name ends in ".md".
File(kind, lookup, tokens) ==
    [kind |-> kind, lookup |-> lookup, tokens |-> tokens, ext |-> ".md"]

\* The same file under a name with another ending.
Renamed(doc, ext) ==
    [doc EXCEPT !.ext = ext]

\* str.lower() of an ending.
Lower(ext) ==
    IF ext = ".MD" THEN ".md" ELSE ext

\* fname.lower().endswith((".txt", ".html", ".md"))
Supported(doc) ==
    Lower(doc.ext) \in {".txt", ".html", ".md"}

\* A source locator: the raw path of the file-th file of the walk, its
\* course content URL or its forum thread URL.
Locator(kind, file) ==
    [kind |-> kind, file |-> file]

\* The chunk at position idx (0-based) of the file-th file of the walk.
ChunkId(file, idx) ==
    [file |-> file, idx |-> idx]

\* chunk_by_tokens run to its return (for a positive stride).
RECURSIVE ChunkRun(_)
ChunkRun(c) ==
    IF c.start < Len(c.tokens) THEN ChunkRun(ChunkStep(c)) ELSE c.chunks

ChunkByTokens(tokens, max_tokens, overlap) ==
    ChunkRun(ChunkCall(tokens, max_tokens, overlap))

\* json.load(open(<thread JSON>)) and data['slug'], data['id']: the exception
\* raised for each state of the thread JSON file.
LookupError(lookup) ==
    CASE lookup = "missing" -> "FileNotFoundError"
      [] lookup = "unreadable" -> "PermissionError"
      [] lookup = "malformed" -> "JSONDecodeError"
      [] lookup = "nokey" -> "KeyError"
      [] OTHER -> "none"

Lookups ==
    {"ok", "missing", "unreadable", "malformed", "nokey"}

\* except (FileNotFoundError, KeyError) of the manual script.
CaughtByManual ==
    {"FileNotFoundError", "KeyError"}

Sourced(error, source) ==
    [error |-> error, source |-> source]

\* get_source(file): the locator it returns, or the exception it raises.
GetSource(script, file, doc) ==
    IF doc.kind = "discourse_content"
    THEN Sourced("none", Locator("content_url", file))
    ELSE IF doc.kind = "discourse_posts"
         THEN IF LookupError(doc.lookup) = "none"
              THEN Sourced("none", Locator("thread_url", file))
              ELSE IF script = "manual" /\ LookupError(doc.lookup) \in CaughtByManual
                   THEN Sourced("none", Locator("path", file))
                   ELSE Sourced(LookupError(doc.lookup), Locator("path", file))
         ELSE Sourced("none", Locator("path", file))

\* The vector the service answers a text with, normalized by embed_text.
EmbeddingOf(text) ==
    Normalized(Axis(Dim, (Len(text) % Dim) + 1, MaxNorm)).x

\* meta = {"source": ..., "chunk_id": idx}
Meta(source, chunk_id) ==
    [source |-> source, chunk_id |-> chunk_id]

\* [{"text": t, **m} for t, m in zip(texts, metas)]
Records(texts, metas) ==
    [i \in 1..(IF Len(texts) < Len(metas) THEN Len(texts) ELSE Len(metas)) |->
        MetaRecord(metas[i].source, metas[i].chunk_id, texts[i])]

\* The answers of the service to the texts of a batch, one per text: TRUE
\* for a vector, FALSE for a failure; at most limit failures.
Answers(n, limit) ==
    {a \in [1..n -> BOOLEAN] : Cardinality({i \in 1..n : ~a[i]}) <= limit}

\* embs of index_batch: the items whose embedding did not fail.
RECURSIVE Embs(_, _)
Embs(items, answers) ==
    IF items = <<>>
    THEN <<>>
    ELSE (IF Head(answers) THEN <<Head(items)>> ELSE <<>>)
             \o Embs(Tail(items), Tail(answers))

AllItems(items, answers) ==
    items

\* valid_texts and valid_metas of the manual index_batch.
RECURSIVE ValidItems(_, _)
ValidItems(items, answers) ==
    IF items = <<>>
    THEN <<>>
    ELSE (IF Head(answers) THEN <<Head(items)>> ELSE <<>>)
             \o ValidItems(Tail(items), Tail(answers))

Aborted(g, error) ==
    [g EXCEPT !.pc = "aborted", !.error = error]

\* index_batch(batch_texts, batch_meta).  openai: the list comprehension
\* embeds the texts in order and the first failure leaves the function;
\* otherwise index.add and metadata.extend.  manual: the texts whose
\* embedding is None are left out; index.add and metadata.extend only if an
\* embedding is left.  origin and failed record which chunk each stored
\* vector embeds and which chunks failed.
IndexBatch(g, answers) ==
    LET n == Len(g.batch_texts)
        failing == {i \in 1..n : ~answers[i]}
        vectors == [i \in 1..n |-> EmbeddingOf(g.batch_texts[i])]
        called == [g EXCEPT !.batches = Append(@, [texts |-> g.batch_texts,
                                                   metas |-> g.batch_meta])]
    IN  IF g.script = "openai"
        THEN IF failing = {}
             THEN [called EXCEPT !.xb = @ \o vectors,
                            !.metadata = @ \o Records(g.batch_texts, g.batch_meta),
                            !.origin = @ \o g.batch_origin]
             ELSE [Aborted(called, "EmbeddingError") EXCEPT
                      !.failed = @ \cup {g.batch_origin[CHOOSE i \in failing :
                                                           \A j \in failing : i <= j]}]
        ELSE IF Embs(vectors, answers) # <<>>
             THEN [called EXCEPT !.xb = @ \o Embs(vectors, answers),
                            !.metadata = @ \o Records(ValidItems(g.batch_texts, answers),
                                                      ValidItems(g.batch_meta, answers)),
                            !.origin = @ \o Embs(g.batch_origin, answers),
                            !.failed = @ \cup {g.batch_origin[i] : i \in failing}]
             ELSE [called EXCEPT !.failed = @ \cup {g.batch_origin[i] : i \in failing},
                            !.no_valid = @ + 1]

\* The batch kept as it is.
KeepBatch(g) ==
    g

\* batch_texts, batch_meta = [], []
ClearBatch(g) ==
    IF g.pc = "aborted"
    THEN g
    ELSE [g EXCEPT !.batch_texts = <<>>, !.batch_meta = <<>>, !.batch_origin = <<>>]

\* The start of a run: empty index, empty metadata, no file walked.
IngestRun(script, docs) ==
    [NoIngest EXCEPT !.script = script, !.docs = docs, !.pc = "walk", !.run = 1]

\* The chunks of a file of the walk: none of a file whose name has no
\* supported ending, chunk_by_tokens of its text otherwise.
FileChunks(doc) ==
    IF Supported(doc)
    THEN ChunkByTokens(doc.tokens, IngestWindow, IngestOverlap)
    ELSE <<>>

\* The next file of the walk: load_file and chunk_by_tokens.
IngestFile ==
    /\ ingest.pc = "walk"
    /\ ingest.idx = Len(ingest.chunks)
    /\ ingest.file < Len(ingest.docs)
    /\ ingest' =
          [ingest EXCEPT
              !.file = @ + 1,
              !.chunks = FileChunks(ingest.docs[ingest.file + 1]),
              !.idx = 0]
    /\ UNCHANGED <<chunker, embedder>>
    /\ UNCHANGED retrievalVars
    /\ UNCHANGED deployVars

\* The next chunk of the file: get_source, the appends to the batch, and
\* index_batch when the batch has BATCH_SIZE texts.  limit is the most
\* embedding failures of the run.
IngestChunk(limit) ==
    /\ ingest.pc = "walk"
    /\ ingest.idx < Len(ingest.chunks)
    /\ LET src == GetSource(ingest.script, ingest.file, ingest.docs[ingest.file])
           appended ==
               [ingest EXCEPT
                   !.batch_texts = Append(@, ingest.chunks[ingest.idx + 1]),
                   !.batch_meta = Append(@, Meta(src.source, ingest.idx)),
                   !.batch_origin = Append(@, ChunkId(ingest.file, ingest.idx)),
                   !.idx = @ + 1]
       IN  IF src.error # "none"
           THEN ingest' = Aborted(ingest, src.error)
           ELSE IF Len(appended.batch_texts) >= BatchSize
                THEN \E answers \in Answers(Len(appended.batch_texts),
                                            limit - Cardinality(ingest.failed)) :
                        ingest' = ClearBatch(IndexBatch(appended, answers))
                ELSE ingest' = appended
    /\ UNCHANGED <<chunker, embedder>>
    /\ UNCHANGED retrievalVars
    /\ UNCHANGED deployVars

\* The walk is over: index_batch of the texts left in the batch, and
\* ingest_dir returns.
IngestFlush(limit) ==
    /\ ingest.pc = "walk"
    /\ ingest.idx = Len(ingest.chunks)
    /\ ingest.file = Len(ingest.docs)
    /\ LET returned(g) == IF g.pc = "aborted" THEN g ELSE [g EXCEPT !.pc = "persist"]
       IN  IF ingest.batch_texts # <<>>
           THEN \E answers \in Answers(Len(ingest.batch_texts),
                                       limit - Cardinality(ingest.failed)) :
                   ingest' = returned(IndexBatch(ingest, answers))
           ELSE ingest' = returned(ingest)
    /\ UNCHANGED <<chunker, embedder>>
    /\ UNCHANGED retrievalVars
    /\ UNCHANGED deployVars

\* The tokenizer's vocabulary of the model: the character of each token.
Vocabulary ==
    <<"a", QUOTE, BSL, NL, "b">>

\* ENC.decode: the text of a token slice.
Decode(tokens) ==
    [i \in 1..Len(tokens) |-> Vocabulary[((tokens[i] - 1) % Len(Vocabulary)) + 1]]

\* The string a source locator is: a path or a URL, told apart by its first
\* character, of the file-th file.
SourceString(locator) ==
    <<IF locator.kind = "path" THEN "p"
      ELSE IF locator.kind = "content_url" THEN "c" ELSE "t">>
        \o JsonDumpInt(locator.file)

\* The records of the metadata list as json.dump receives them.
StoredRecords(records) ==
    [i \in 1..Len(records) |->
        MetaRecord(SourceString(records[i].source), records[i].chunk_id,
                   Decode(records[i].text))]

\* The directory where the file at the script's index path is joined to the
\* file already there.
WrittenAfter(d, g) ==
    LET old == ReadIndex(d[ScriptIndexPath])
    IN  [d EXCEPT ![ScriptIndexPath] =
                      WriteIndex([d |-> Dim, xb |-> old.xb \o g.xb]),
                  ![ScriptMetaPath] =
                      WriteMeta(JsonLoad(d[ScriptMetaPath].records)
                                    \o StoredRecords(g.metadata))]

\* faiss.write_index(index, "res/model/virtual-ta.faiss") and json.dump of
\* metadata into "res/model/metadata.json": both files are written anew.
Written(d, g) ==
    [d EXCEPT ![ScriptIndexPath] = WriteIndex([d |-> Dim, xb |-> g.xb]),
              ![ScriptMetaPath] = WriteMeta(StoredRecords(g.metadata))]

\* __main__ after ingest_dir: faiss.write_index and json.dump of metadata.
Persist ==
    /\ ingest.pc = "persist"
    /\ ingest' = [ingest EXCEPT !.pc = "done"]
    /\ disk' = Written(disk, ingest)
    /\ UNCHANGED chat
    /\ UNCHANGED <<chunker, embedder>>
    /\ UNCHANGED retrievalVars

(***************************************************************************)
(* SpecIngest: a run of either script over up to MaxDocs plain files (the  *)
(* source of a chunk is the file's path), with up to MaxFailures failing   *)
(* embedding calls.                                                        *)
(***************************************************************************)
PlainFiles ==
    {File("other", "ok", TokenStream(n)) : n \in 0..MaxDocTokens}
        \cup {Renamed(File("other", "ok", TokenStream(MaxDocTokens)), ext) :
                  ext \in {".MD", ".json"}}

InitIngest ==
    /\ RetrievalIdle
    /\ DeployIdle
    /\ chunker = NoChunker
    /\ embedder = NoEmbedder
    /\ \E script \in Scripts, docs \in SeqsUpTo(PlainFiles, MaxDocs) :
          ingest = IngestRun(script, docs)

EmbedChunkStep ==
    IngestChunk(MaxFailures)

EmbedFlushStep ==
    IngestFlush(MaxFailures)

NextIngest ==
    \/ IngestFile
    \/ EmbedChunkStep
    \/ EmbedFlushStep
    \/ Persist

SpecIngest ==
    InitIngest /\ [][NextIngest]_vars

(***************************************************************************)
(* SpecSource: a run of either script over up to MaxDocs files of every    *)
(* directory and every state of the thread JSON file; no embedding call    *)
(* fails.                                                                  *)
(***************************************************************************)
SourcedFiles ==
    {File("other", "ok", TokenStream(IngestWindow)),
     File("discourse_content", "ok", TokenStream(IngestWindow))}
        \cup {File("discourse_posts", lookup, TokenStream(IngestWindow)) : lookup \in Lookups}

InitSource ==
    /\ RetrievalIdle
    /\ DeployIdle
    /\ chunker = NoChunker
    /\ embedder = NoEmbedder
    /\ \E script \in Scripts, docs \in SeqsUpTo(SourcedFiles, MaxDocs) :
          ingest = IngestRun(script, docs)

SourceChunkStep ==
    IngestChunk(0)

SourceFlushStep ==
    IngestFlush(0)

NextSource ==
    \/ IngestFile
    \/ SourceChunkStep
    \/ SourceFlushStep
    \/ Persist

SpecSource ==
    InitSource /\ [][NextSource]_vars

(***************************************************************************)
(* SpecDeploy: runs of either script, one process after the other, over    *)
(* the same corpus under res/, and then the start of the server.  No       *)
(* embedding call fails.                                                   *)
(***************************************************************************)
\* The most runs of a script.
MaxRuns ==
    2

\* res/model/ before the first run: empty, or the pair of files of an
\* earlier deployment at the paths the server reads.
InitialDisks ==
    LET ix == [d |-> Dim, xb |-> <<Axis(Dim, 1, 1)>>]
        md == <<MetaRecord(Doc1, 3, <<"a">>)>>
    IN  { EmptyDisk,
          [EmptyDisk EXCEPT ![FAISS_INDEX_PATH] = WriteIndex(ix),
                            ![METADATA_PATH] = WriteMeta(md)] }

\* The files the walk of res/ meets: the corpus and, once a run has
\* persisted, the two files of res/model/.
Walked(docs) ==
    IF \E f \in 1..Len(docs) : docs[f].ext = ".faiss"
    THEN docs
    ELSE docs \o <<Renamed(File("other", "ok", <<>>), ".faiss"),
                   Renamed(File("other", "ok", <<>>), ".json")>>

\* The script is started again: a new process, whose module level makes an
\* empty index and an empty metadata list.
Rerun ==
    /\ ingest.pc = "done"
    /\ ingest.run < MaxRuns
    /\ call.op = "none"
    /\ ingest' = [IngestRun(ingest.script, Walked(ingest.docs)) EXCEPT
                     !.run = ingest.run + 1]
    /\ UNCHANGED <<chunker, embedder>>
    /\ UNCHANGED retrievalVars
    /\ UNCHANGED deployVars

\* The server process starts: routes.py constructs its FAISSIndex over
\* Config.FAISS_INDEX_PATH and Config.METADATA_PATH.
ServerStart ==
    /\ ingest.pc = "done"
    /\ call.op = "none"
    /\ files' = Files(disk[FAISS_INDEX_PATH], disk[METADATA_PATH])
    /\ index' = LoadedIndex(IndexFlatIP(Dim), files')
    /\ metadata' = LoadedMetadata(<<>>, files')
    /\ call' = Call("construct", "none")
    /\ UNCHANGED <<similarity_threshold, saved, tieAscending, tieKeepLow>>
    /\ UNCHANGED pipelineVars
    /\ UNCHANGED deployVars

InitDeploy ==
    /\ files = Files(NoIndexFile, NoMetaFile)
    /\ index = IndexFlatIP(Dim)
    /\ metadata = <<>>
    /\ similarity_threshold = MaxThreshold
    /\ call = Call("none", "none")
    /\ saved = NothingSaved
    /\ tieAscending = TRUE
    /\ tieKeepLow = TRUE
    /\ chunker = NoChunker
    /\ embedder = NoEmbedder
    /\ \E script \in Scripts, docs \in SeqsUpTo(PlainFiles, MaxDocs) :
          ingest = IngestRun(script, docs)
    /\ disk \in InitialDisks
    /\ chat = NoChat

NextDeploy ==
    \/ IngestFile
    \/ SourceChunkStep
    \/ SourceFlushStep
    \/ Persist
    \/ Rerun
    \/ ServerStart

SpecDeploy ==
    InitDeploy /\ [][NextDeploy]_vars

(***************************************************************************)
(* The chat route (app/api/routes.py).  A request is handled by one        *)
(* coroutine; between two awaits (llm.embed, llm.generate_response) its    *)
(* code runs without another request's code in between, so there is one    *)
(* action from each await to the next.  The OCR engine, the embedding      *)
(* service and the completion service answer as they like.                 *)
(***************************************************************************)
\* The requests handled at the same time.
Requests ==
    {"r1", "r2"}

\* The k of both searches of the handler (15 in the code), scaled down.
ChatK ==
    3

\* request.image: absent, a decodable image, or one OCR fails on.
Images ==
    {"none", "ok", "bad"}

\* request.question: empty or not.
Questions ==
    {<<>>, <<"q">>}

\* The vectors llm.embed returns: one near the stored vectors, one far.
ChatQueries ==
    {Axis(Dim, 1, 1), Axis(Dim, Dim, -1)}

\* A call made by the handler and whether it returned (ok) or raised.
Made(op, ok) ==
    [op |-> op, ok |-> ok]

\* A request before its handler runs.
Request(image, question) ==
    [image |-> image, question |-> question, pc |-> "start",
     ocr_text |-> <<>>, extra_relevant |-> <<>>, augmented_query |-> <<>>,
     relevant |-> <<>>, calls |-> <<>>, status |-> 0, answer |-> "none",
     links |-> <<>>]

\* raise HTTPException(status_code=status): the handler ends.
Raise(r, status) ==
    [r EXCEPT !.pc = "done", !.status = status]

\* return ChatResponse(answer=answer, links=links): the handler ends, 200.
Respond(r, answer, links) ==
    [r EXCEPT !.pc = "done", !.status = 200, !.answer = answer, !.links = links]

Logged(r, op, ok) ==
    [r EXCEPT !.calls = Append(@, Made(op, ok))]

\* f"{request.question}\n\nOCR result:\n{ocr_text}"
Augmented(question, ocr_text) ==
    question \o <<NL, NL, "O", "C", "R", ":", NL>> \o ocr_text

\* A test that finds no query empty.
NeverEmpty(augmented_query) ==
    FALSE

\* if not augmented_query
IsEmptyQuery(augmented_query) ==
    augmented_query = <<>>

\* A test that finds context in every hit list.
AlwaysContext(relevant) ==
    TRUE

\* if not relevant: ... else the handler goes on to the excerpts.
HasContext(relevant) ==
    relevant # <<>>

\* The handler's frame with a write of the query into the index.
QueryStored ==
    /\ index' = [index EXCEPT !.xb = Append(@, Axis(index.d, 1, 1))]
    /\ UNCHANGED <<metadata, similarity_threshold, files, call, saved,
                   tieAscending, tieKeepLow>>

\* search and generate_excerpts assign no field of the object, and the
\* handler calls no other method of it.
ReadOnly ==
    UNCHANGED <<index, metadata, similarity_threshold, files, call, saved,
                tieAscending, tieKeepLow>>

\* The step of the handler that ends with llm.embed(augmented_query) being
\* awaited, unless the query is empty.
AwaitQueryEmbedding(r) ==
    IF IsEmptyQuery(r.augmented_query)
    THEN Raise(r, 400)
    ELSE [r EXCEPT !.pc = "embed_query"]

\* Lines 30-34 and 39-43: the handler up to its first await.  With an
\* image, ocr.extract_text, then llm.embed(request.question) is awaited;
\* without, augmented_query is the question.
ChatStart(r) ==
    /\ chat[r].pc = "start"
    /\ chat' =
          [chat EXCEPT ![r] =
              IF chat[r].image # "none"
              THEN IF chat[r].image = "bad"
                   THEN Raise(Logged(chat[r], "ocr", FALSE), 400)
                   ELSE [Logged(chat[r], "ocr", TRUE) EXCEPT
                            !.ocr_text = <<"t">>, !.pc = "embed_question"]
              ELSE AwaitQueryEmbedding(
                       [chat[r] EXCEPT !.augmented_query = chat[r].question])]
    /\ ReadOnly
    /\ UNCHANGED pipelineVars
    /\ UNCHANGED disk

\* Lines 34-38 and 41-43: llm.embed(request.question) raises, or returns
\* and faiss.search is called; any exception of the try block is answered
\* with 400.
ChatQuestionEmbedded(r) ==
    /\ chat[r].pc = "embed_question"
    /\ \/ chat' = [chat EXCEPT ![r] = Raise(Logged(chat[r], "embed", FALSE), 400)]
       \/ \E q \in ChatQueries :
             LET embedded == Logged(chat[r], "embed", TRUE)
             IN  chat' =
                    [chat EXCEPT ![r] =
                        IF IndexSearchError(index, q, ChatK) # "none"
                        THEN Raise(Logged(embedded, "search", FALSE), 400)
                        ELSE AwaitQueryEmbedding(
                                 [Logged(embedded, "search", TRUE) EXCEPT
                                     !.extra_relevant =
                                         SearchResults(index, q, ChatK, similarity_threshold),
                                     !.augmented_query =
                                         Augmented(chat[r].question, chat[r].ocr_text)])]
    /\ ReadOnly
    /\ UNCHANGED pipelineVars
    /\ UNCHANGED disk

\* Lines 43-55: llm.embed(augmented_query) returns, the search, the merge
\* with extra_relevant, the answer without context or generate_excerpts,
\* build_prompt and the completion call.  An exception here is not caught:
\* the framework answers 500.
ChatQueryEmbedded(r) ==
    /\ chat[r].pc = "embed_query"
    /\ \/ chat' = [chat EXCEPT ![r] = Raise(Logged(chat[r], "embed", FALSE), 500)]
       \/ \E q \in ChatQueries :
             LET embedded == Logged(chat[r], "embed", TRUE)
                 relevant == SearchResults(index, q, ChatK, similarity_threshold)
                                 \o chat[r].extra_relevant
                 searched == [Logged(embedded, "search", TRUE) EXCEPT
                                 !.relevant = relevant]
             IN  chat' =
                    [chat EXCEPT ![r] =
                        IF IndexSearchError(index, q, ChatK) # "none"
                        THEN Raise(Logged(embedded, "search", FALSE), 500)
                        ELSE IF ~HasContext(relevant)
                        THEN Respond(searched, "no_context", <<>>)
                        ELSE IF GenerateExcerptsError(metadata, relevant) # "none"
                        THEN Raise(Logged(searched, "generate_excerpts", FALSE), 500)
                        ELSE [Logged(Logged(searched, "generate_excerpts", TRUE),
                                     "build_prompt", TRUE) EXCEPT
                                 !.pc = "completion"]]
    /\ ReadOnly
    /\ UNCHANGED pipelineVars
    /\ UNCHANGED disk

\* The answers of llm.generate_response: an exception, a refusal, content
\* that is the JSON object asked for, or other content.
Completions ==
    {"exception", "refusal", "json", "other"}

\* Lines 55-74: the completion returns and the handler answers.
ChatCompleted(r) ==
    /\ chat[r].pc = "completion"
    /\ \E completion \in Completions :
          LET called == Logged(chat[r], "generate_response", completion # "exception")
          IN  chat' =
                 [chat EXCEPT ![r] =
                     IF completion = "exception" THEN Raise(called, 500)
                     ELSE IF completion = "refusal"
                     THEN Respond(called, "no_context", <<>>)
                     ELSE IF completion = "json"
                     THEN Respond(called, "answer", <<"link">>)
                     ELSE Respond(called, "internal_error", <<>>)]
    /\ ReadOnly
    /\ UNCHANGED pipelineVars
    /\ UNCHANGED disk

(***************************************************************************)
(* SpecChat: the requests of Requests handled at the same time by a server *)
(* whose index was constructed over no files, over a pair of two entries,  *)
(* or over a pair built for another dimension.                             *)
(***************************************************************************)
ChatFiles ==
    LET ix == [d |-> Dim, xb |-> <<Axis(Dim, 1, 1), Axis(Dim, 1, 1)>>]
        wide == [d |-> Dim + 1, xb |-> <<WideRow>>]
        md == <<MetaRecord(Doc1, 12, <<"a">>), MetaRecord(Doc2, 12, <<"a", BSL>>)>>
    IN  { Files(NoIndexFile, NoMetaFile),
          Files(WriteIndex(ix), WriteMeta(md)),
          Files(WriteIndex(wide), WriteMeta(md)) }

InitChat ==
    /\ files \in ChatFiles
    /\ index = LoadedIndex(IndexFlatIP(Dim), files)
    /\ metadata = LoadedMetadata(<<>>, files)
    /\ similarity_threshold = MaxThreshold
    /\ call = Call("construct", "none")
    /\ saved = NothingSaved
    /\ tieAscending = TRUE
    /\ tieKeepLow = TRUE
    /\ PipelineIdle
    /\ disk = EmptyDisk
    /\ chat \in [Requests -> {Request(image, question) :
                                  image \in Images, question \in Questions}]

ChatStartStep ==
    \E r \in Requests : ChatStart(r)

ChatQuestionEmbeddedStep ==
    \E r \in Requests : ChatQuestionEmbedded(r)

ChatQueryEmbeddedStep ==
    \E r \in Requests : ChatQueryEmbedded(r)

ChatCompletedStep ==
    \E r \in Requests : ChatCompleted(r)

NextChat ==
    \/ ChatStartStep
    \/ ChatQuestionEmbeddedStep
    \/ ChatQueryEmbeddedStep
    \/ ChatCompletedStep

SpecChat ==
    InitChat /\ [][NextChat]_vars

(***************************************************************************)
(* Properties of the index and its file pair (Spec).                       *)
(***************************************************************************)
\* C1: in every reachable state the number of stored vectors equals the
\* number of metadata records (index.ntotal == len(metadata)).
C1_VectorsMatchMetadata ==
    ntotal(index) = Len(metadata)

\* C2: an add call whose vector count differs from its metadata count fails
\* with AlignmentError and leaves the stored vectors and the stored metadata
\* as they were (stated for arrays of the index's width).
C2_MismatchedAddRejected ==
    [][\A embeddings \in EmbeddingBatches, records \in MetadataBatches :
          ( /\ embeddings.w = index.d
            /\ Len(embeddings.rows) # Len(records)
            /\ AddEmbeddings(embeddings, records) )
          => ( /\ call'.err = "AlignmentError"
               /\ index' = index
               /\ metadata' = metadata )]_vars

\* C3: an add call with vectors of a width other than the index's fails with
\* DimensionMismatchError and leaves stored vectors and metadata unchanged.
C3_WrongWidthAddRejected ==
    [][\A embeddings \in EmbeddingBatches, records \in MetadataBatches :
          ( /\ embeddings.w # index.d
            /\ AddEmbeddings(embeddings, records) )
          => ( /\ call'.err = "DimensionMismatchError"
               /\ index' = index
               /\ metadata' = metadata )]_vars

\* C8: a FAISSIndex constructed on the paths after save_index holds the
\* vectors and the metadata records that were saved, in the same order.
C8_SaveThenConstructRoundTrip ==
    (call.op = "construct" /\ saved.valid)
        => (index = saved.index /\ metadata = saved.metadata)

\* A constructed index read back from a save of two vectors and of records
\* whose strings hold a quote, a backslash and a line break.
C8_Witness ==
    /\ call.op = "construct"
    /\ saved.valid
    /\ ntotal(saved.index) = MaxStored
    /\ saved.index.xb[1] # saved.index.xb[2]
    /\ \E i \in 1..Len(saved.metadata) :
          /\ saved.metadata[i].chunk_id >= 10
          /\ \E j \in 1..Len(saved.metadata[i].text) : saved.metadata[i].text[j] = BSL
    /\ \E i \in 1..Len(saved.metadata) :
          /\ \E j \in 1..Len(saved.metadata[i].source) : saved.metadata[i].source[j] = QUOTE

\* The two files disagree on the number of entries.
MismatchedPair(f) ==
    /\ f.index_path.exists
    /\ f.meta_path.exists
    /\ f.index_path.ntotal # Len(f.meta_path.records)

\* C9: loading a file pair whose vector count differs from its metadata count
\* is rejected with CorruptIndexError and the index is left empty.
C9_MismatchedPairRejected ==
    (call.op \in {"construct", "load_index"} /\ MismatchedPair(files))
        => ( /\ call.err = "CorruptIndexError"
             /\ ntotal(index) = 0
             /\ metadata = <<>> )

(***************************************************************************)
(* Properties of search (SpecSearch).                                      *)
(***************************************************************************)
\* The last call was a search that returned.
Searched ==
    call.op = "search" /\ call.err = "none"

\* The score of stored position p for the last query.
QueryScore(p) ==
    ScoreAt(index, call.query, p)

\* The stored positions whose score passes the threshold.
Passing ==
    {p \in Positions(index) : QueryScore(p) >= similarity_threshold}

HitPositions ==
    {call.hits[i].idx : i \in 1..Len(call.hits)}

\* Position p is among the k best whatever the order among equal scores:
\* fewer than k other positions score as much as p.
SurelyAmongTopK(p) ==
    Cardinality({j \in Positions(index) \ {p} : QueryScore(j) >= QueryScore(p)}) < call.k

Min(a, b) ==
    IF a <= b THEN a ELSE b

\* C4: search returns no hit whose score is below similarity_threshold, and
\* it returns every candidate among the top k whose score equals the
\* threshold.
C4_ThresholdInclusive ==
    Searched =>
        /\ \A i \in 1..Len(call.hits) : call.hits[i].score >= similarity_threshold
        /\ \A p \in Positions(index) :
              (QueryScore(p) = similarity_threshold /\ SurelyAmongTopK(p))
                  => p \in HitPositions

\* A search that returned a hit scoring exactly the threshold and left out a
\* stored vector that was among the top k and scores below it.
C4_Witness ==
    /\ Searched
    /\ \E i \in 1..Len(call.hits) : call.hits[i].score = similarity_threshold
    /\ \E p \in Positions(index) :
          QueryScore(p) < similarity_threshold /\ SurelyAmongTopK(p)

\* C5: search returns at most k hits, they are the k highest-scoring stored
\* vectors that pass the threshold, in descending score order, and hits of
\* equal score are in ascending position order.
C5_TopKDescendingTiesAscending ==
    Searched =>
        /\ Len(call.hits) = Min(call.k, Cardinality(Passing))
        /\ \A i \in 1..Len(call.hits) :
              /\ call.hits[i].idx \in Passing
              /\ call.hits[i].score = QueryScore(call.hits[i].idx)
        /\ \A p \in Passing \ HitPositions :
              \A i \in 1..Len(call.hits) : QueryScore(p) <= call.hits[i].score
        /\ \A i, j \in 1..Len(call.hits) :
              i < j => \/ call.hits[i].score > call.hits[j].score
                       \/ /\ call.hits[i].score = call.hits[j].score
                          /\ call.hits[i].idx < call.hits[j].idx

\* C6: for every k >= 1 and every index size, search returns exactly the
\* stored entries (up to k) that pass the threshold, every returned position
\* is a stored position (never the -1 of an unfilled slot), and every hit
\* resolves to a metadata record in generate_excerpts.
C6_HitsAreStoredAndResolvable ==
    Searched =>
        /\ Len(call.hits) = Min(call.k, Cardinality(Passing))
        /\ Cardinality(HitPositions) = Len(call.hits)
        /\ HitPositions \subseteq Passing
        /\ \A i \in 1..Len(call.hits) : Resolvable(metadata, call.hits[i].idx)

Assembled ==
    call.op = "generate_excerpts" /\ call.err = "none"

\* The metadata record hit i of the last hit list resolves to.
HitRecord(i) ==
    metadata[call.relevant[i].idx + 1]

\* The rank of the first hit of the list whose record has this key.
FirstHitOf(key) ==
    CHOOSE i \in 1..Len(call.relevant) :
        /\ Key(HitRecord(i)) = key
        /\ \A j \in 1..(i - 1) : Key(HitRecord(j)) # key

\* C10: the excerpts generate_excerpts returns hold no two excerpts of the
\* same (source, chunk_id), hold every (source, chunk_id) of the hits, each
\* excerpt is the record of the first hit of its key, and the excerpts are in
\* the order of those first hits.
C10_ExcerptsAreFirstHitsInOrder ==
    Assembled =>
        LET ex == call.excerpts
            key(a) == Key(ex[a][2])
        IN  /\ \A a, b \in 1..Len(ex) : a # b => key(a) # key(b)
            /\ {key(a) : a \in 1..Len(ex)}
                   = {Key(HitRecord(i)) : i \in 1..Len(call.relevant)}
            /\ \A a \in 1..Len(ex) :
                  ex[a] = Excerpt(HitRecord(FirstHitOf(key(a))))
            /\ \A a, b \in 1..Len(ex) :
                  a < b => FirstHitOf(key(a)) < FirstHitOf(key(b))

\* A hit list of three hits at three positions: the first and the last
\* resolve to different records of one (source, chunk_id), the second to a
\* record of another source; two excerpts are returned.
C10_Witness ==
    /\ Assembled
    /\ Len(call.relevant) = 3
    /\ Len(call.excerpts) = 2
    /\ Key(HitRecord(1)) = Key(HitRecord(3))
    /\ HitRecord(1) # HitRecord(3)
    /\ Key(HitRecord(2)) # Key(HitRecord(1))
    /\ HitRecord(2).chunk_id = HitRecord(1).chunk_id

(***************************************************************************)
(* Properties of chunk_by_tokens (SpecChunk).                              *)
(***************************************************************************)
RECURSIVE Lengths(_)
Lengths(chunks) ==
    IF chunks = <<>> THEN <<>> ELSE <<Len(Head(chunks))>> \o Lengths(Tail(chunks))

ChunkingDone(n, max_tokens, overlap) ==
    /\ chunker.pc = "done"
    /\ Len(chunker.tokens) = n
    /\ chunker.max_tokens = max_tokens
    /\ chunker.overlap = overlap

\* C11: chunk_by_tokens with max_tokens = 10 and overlap = 2 on a 25-token
\* document returns exactly 3 chunks, of 10, 10 and 7 tokens.
C11_TwentyFiveTokensThreeChunks ==
    ChunkingDone(25, 10, 2) => Lengths(chunker.chunks) = <<10, 10, 7>>

\* C11 (amended): chunk_by_tokens with max_tokens = 10 and overlap = 2 on a
\* 25-token document returns exactly 4 chunks, of 10, 10, 9 and 1 tokens (the
\* windows that start at tokens 0, 8, 16 and 24).
C11_TwentyFiveTokensFourChunks ==
    ChunkingDone(25, 10, 2) =>
        /\ Lengths(chunker.chunks) = <<10, 10, 9, 1>>
        /\ \A i \in 1..4 : Head(chunker.chunks[i]) = (8 * (i - 1)) + 1

C11_Witness ==
    /\ ChunkingDone(25, 10, 2)
    /\ Len(chunker.chunks) = 4

\* C12: when overlap >= max_tokens, chunk_by_tokens on a non-empty token
\* stream rejects the configuration: it runs no iteration of its loop and
\* appends no chunk.
C12_NonPositiveStrideRejected ==
    (chunker.pc # "idle" /\ chunker.overlap >= chunker.max_tokens /\ chunker.tokens # <<>>)
        => chunker.chunks = <<>>

\* The tokens of a chunk after its overlap with the chunk before it.
AfterOverlap(chunk, overlap) ==
    PySlice(chunk, overlap, Len(chunk))

\* Chunk 0 in full, then of each later chunk the tokens after its overlap.
Rebuilt(chunks, overlap) ==
    IF chunks = <<>>
    THEN <<>>
    ELSE Head(chunks) \o
         Flatten([i \in 1..(Len(chunks) - 1) |-> AfterOverlap(chunks[i + 1], overlap)])

\* C13: for 0 <= overlap < max_tokens the returned chunks cover the token
\* stream with no gap: chunk 0 followed by the tokens of each later chunk
\* after its overlap is the token stream itself.
C13_ChunksCoverStream ==
    (chunker.pc = "done" /\ chunker.overlap < chunker.max_tokens)
        => Rebuilt(chunker.chunks, chunker.overlap) = chunker.tokens

\* A returned chunking of 3 or more chunks with a real overlap, whose last
\* chunk lies wholly inside the overlap and whose chunk before it is cut short
\* by the end of the stream.
C13_Witness ==
    /\ chunker.pc = "done"
    /\ chunker.overlap >= 1
    /\ chunker.overlap < chunker.max_tokens
    /\ Len(chunker.chunks) >= 3
    /\ Len(chunker.chunks[Len(chunker.chunks)]) <= chunker.overlap
    /\ Len(chunker.chunks[Len(chunker.chunks) - 1]) < chunker.max_tokens
    /\ Rebuilt(chunker.chunks, chunker.overlap) = chunker.tokens

(***************************************************************************)
(* Properties of the embedding functions (SpecEmbed).                      *)
(***************************************************************************)
\* C14: an embedding of norm zero is never divided by its norm: the call in
\* which the service returned one fails with DegenerateVectorError, in the
\* embed_text functions of ingestion and in LLM.embed.
C14_ZeroNormRejected ==
    embedder.degenerate => embedder.status = "DegenerateVectorError"

\* A vector of norm 1.0.
IsUnit(v) ==
    v.kind = "vector" /\ InnerProduct(v.x, v.x) = UnitScale * UnitScale

\* C15: every vector an embedding function of ingestion returns has unit
\* norm, the vector safe_embed returns after splitting a text included.
\* (Stated for the calls in which every vector of the service had a norm
\* above zero.)
C15_ReturnedVectorsAreUnit ==
    ( /\ embedder.caller \in {"openai.safe_embed", "openai.embed_text", "manual.safe_embed"}
      /\ embedder.status = "returned"
      /\ embedder.result.kind # "none"
      /\ ~embedder.degenerate )
        => IsUnit(embedder.result)

\* C16: every recursive safe_embed call receives a text strictly shorter
\* than the text of the call that made it.
C16_RecursionShortensText ==
    \A i \in 2..Len(embedder.stack) :
        Len(embedder.stack[i].text) < Len(embedder.stack[i - 1].text)

\* C17: when the embedding call fails for a reason other than input length,
\* safe_embed ends with that same exception: it returns no value and raises
\* no other error.
C17_OtherFailurePropagates ==
    ( /\ embedder.caller \in {"openai.safe_embed", "manual.safe_embed"}
      /\ embedder.failure \in OtherErrors )
        => embedder.status = embedder.failure

(***************************************************************************)
(* Properties of the ingestion run (SpecIngest, SpecSource).               *)
(***************************************************************************)
\* The chunks of the walk, in the order ingest_dir meets them.
AllChunkIds(docs) ==
    Flatten([f \in 1..Len(docs) |->
                [i \in 1..Len(FileChunks(docs[f])) |->
                    ChunkId(f, i - 1)]])

\* The chunks of s that are not in the set failed, in order.
RECURSIVE Without(_, _)
Without(s, failed) ==
    IF s = <<>>
    THEN <<>>
    ELSE (IF Head(s) \in failed THEN <<>> ELSE <<Head(s)>>) \o Without(Tail(s), failed)

\* C18: when the embedding of a chunk fails, the run does not abort, and at
\* the end of the run the index and the metadata hold every other chunk of
\* the walk: the chunks of the same batch and of the later batches included.
C18_FailedChunkAloneSkipped ==
    ingest.failed # {} =>
        /\ ingest.pc # "aborted"
        /\ ingest.pc = "done" =>
              /\ ingest.origin = Without(AllChunkIds(ingest.docs), ingest.failed)
              /\ Len(ingest.metadata) = Len(ingest.origin)

\* The record ingestion builds for a chunk, and the vector of its text.
ChunkText(docs, c) ==
    FileChunks(docs[c.file])[c.idx + 1]

ChunkRecord(script, docs, c) ==
    MetaRecord(GetSource(script, c.file, docs[c.file]).source, c.idx, ChunkText(docs, c))

\* C19: after every index_batch call the index holds as many vectors as the
\* metadata list holds records, and record i holds the text, source and
\* chunk_id of the chunk whose embedding is vector i.
C19_IngestedVectorsMatchRecords ==
    /\ Len(ingest.xb) = Len(ingest.metadata)
    /\ Len(ingest.origin) = Len(ingest.xb)
    /\ \A i \in 1..Len(ingest.origin) :
          /\ ingest.metadata[i] = ChunkRecord(ingest.script, ingest.docs, ingest.origin[i])
          /\ ingest.xb[i] = EmbeddingOf(ChunkText(ingest.docs, ingest.origin[i]))

\* A finished run of the manual script in which one batch lost all its
\* embeddings, another lost its first and kept a later one, and chunks of
\* two files are stored.
C19_Witness ==
    /\ ingest.script = "manual"
    /\ ingest.pc = "done"
    /\ ingest.no_valid >= 1
    /\ Cardinality(ingest.failed) = MaxFailures
    /\ \E i \in 1..Len(ingest.origin) :
          /\ ingest.origin[i].idx >= 1
          /\ ChunkId(ingest.origin[i].file, ingest.origin[i].idx - 1) \in ingest.failed
    /\ \E i, j \in 1..Len(ingest.origin) : ingest.origin[i].file # ingest.origin[j].file
    /\ Len(ingest.xb) = Len(ingest.metadata)

\* The chunks of forum-thread files whose provenance lookup fails.
LookupFails(docs, c) ==
    docs[c.file].kind = "discourse_posts" /\ LookupError(docs[c.file].lookup) # "none"

\* C20: when the provenance lookup of a forum-thread file fails, the source
\* of its chunks is the raw file path and the run goes on: no exception of
\* the lookup ends it.
C20_FailedLookupFallsBackToPath ==
    /\ ingest.error \notin {LookupError(lookup) : lookup \in Lookups \ {"ok"}}
    /\ \A i \in 1..Len(ingest.batch_origin) :
          LookupFails(ingest.docs, ingest.batch_origin[i])
              => ingest.batch_meta[i].source = Locator("path", ingest.batch_origin[i].file)
    /\ \A i \in 1..Len(ingest.origin) :
          LookupFails(ingest.docs, ingest.origin[i])
              => ingest.metadata[i].source = Locator("path", ingest.origin[i].file)

(***************************************************************************)
(* Properties of add_embeddings and of construction (Spec).                *)
(***************************************************************************)
\* C23: add_embeddings is append-only: a successful add leaves the vector and
\* the record at every earlier position as they were and puts the new rows
\* and the new records behind them, in the order given.  (The calls whose
\* rows are not the ones the step appended are set aside first.)
C23_AddIsAppendOnly ==
    [][\A embeddings \in EmbeddingBatches :
        (call'.op = "add_embeddings" /\ call'.err = "none"
            /\ index' = IndexAdd(index, embeddings)) =>
        \A records \in MetadataBatches :
          (AddEmbeddings(embeddings, records) /\ call'.err = "none")
              => /\ ntotal(index') = ntotal(index) + Len(embeddings.rows)
                 /\ Len(metadata') = Len(metadata) + Len(records)
                 /\ \A p \in Positions(index) : index'.xb[p + 1] = index.xb[p + 1]
                 /\ \A p \in 0..(Len(metadata) - 1) : metadata'[p + 1] = metadata[p + 1]
                 /\ \A i \in 1..Len(embeddings.rows) :
                       index'.xb[ntotal(index) + i] = embeddings.rows[i]
                 /\ \A i \in 1..Len(records) :
                       metadata'[Len(metadata) + i] = records[i]]_vars

\* A successful add on top of a saved index: the saved entry is still first
\* and another vector and another record follow it.
C23_Witness ==
    /\ call.op = "add_embeddings"
    /\ call.err = "none"
    /\ saved.valid
    /\ ntotal(saved.index) = 1
    /\ Len(saved.metadata) = 1
    /\ ntotal(index) = 2
    /\ Len(metadata) = 2
    /\ index.xb[1] = saved.index.xb[1]
    /\ index.xb[2] # index.xb[1]
    /\ metadata[1] = saved.metadata[1]
    /\ metadata[2] # metadata[1]

\* C24: after construction the index is the persisted pair loaded in full or
\* it is empty: with both files present the live vectors and records are
\* those of the files, and with a file missing there is no vector and no
\* record.
C24_ConstructedWholeOrEmpty ==
    call.op = "construct" =>
        IF files.index_path.exists /\ files.meta_path.exists
        THEN /\ index.d = files.index_path.d
             /\ ntotal(index) = files.index_path.ntotal
             /\ Flatten(index.xb) = files.index_path.codes
             /\ JsonDump(metadata) = files.meta_path.records
        ELSE /\ ntotal(index) = 0
             /\ metadata = <<>>

\* A construction that finds the index file without the metadata file.
C24_Witness ==
    /\ call.op = "construct"
    /\ files.index_path.exists
    /\ files.index_path.ntotal >= 1
    /\ ~files.meta_path.exists
    /\ ntotal(index) = 0
    /\ metadata = <<>>

\* C25: after construction the dimension of the live index is embed_dim; an
\* index file of another dimension is rejected with ConfigurationError.
C25_LiveDimensionIsEmbedDim ==
    call.op = "construct" =>
        /\ index.d = Dim
        /\ (files.index_path.exists /\ files.meta_path.exists /\ files.index_path.d # Dim)
               => call.err = "ConfigurationError"

(***************************************************************************)
(* More properties of chunk_by_tokens (SpecChunk).                         *)
(***************************************************************************)
\* ceil(n / s)
CeilDiv(n, s) ==
    ((n + s) - 1) \div s

\* tokens[i*s : min(i*s + max_tokens, n)]
Window(tokens, i, max_tokens, s) ==
    SubSeq(tokens, (i * s) + 1, Min((i * s) + max_tokens, Len(tokens)))

\* C27: for 0 <= overlap < max_tokens, with s = max_tokens - overlap, the
\* call ends after ceil(n / s) iterations and returns exactly the windows
\* tokens[i*s : min(i*s + max_tokens, n)], i = 0, 1, ... while i*s < n, in
\* order: chunk i is appended by iteration i, the loop is never stuck, and
\* an empty stream gives no chunk.
C27_ChunksAreStrideWindows ==
    (chunker.pc # "idle" /\ chunker.overlap < chunker.max_tokens) =>
        LET s == chunker.max_tokens - chunker.overlap
            n == Len(chunker.tokens)
        IN  /\ Len(chunker.chunks) <= CeilDiv(n, s)
            /\ chunker.start = Len(chunker.chunks) * s
            /\ \A i \in 0..(Len(chunker.chunks) - 1) :
                  /\ i * s < n
                  /\ chunker.chunks[i + 1] = Window(chunker.tokens, i, chunker.max_tokens, s)
                  /\ Len(chunker.chunks[i + 1]) <= chunker.max_tokens
            /\ chunker.pc = "loop" => ENABLED (ChunkIterate \/ ChunkReturn)
            /\ chunker.pc = "done" => Len(chunker.chunks) = CeilDiv(n, s)

\* A returned chunking with a real overlap whose stride does not divide the
\* length: 3 or more windows, the last one short.
C27_Witness ==
    /\ chunker.pc = "done"
    /\ chunker.overlap >= 1
    /\ chunker.overlap < chunker.max_tokens
    /\ Len(chunker.tokens) % (chunker.max_tokens - chunker.overlap) # 0
    /\ Len(chunker.chunks) >= 3
    /\ Len(chunker.chunks) = CeilDiv(Len(chunker.tokens), chunker.max_tokens - chunker.overlap)
    /\ Len(chunker.chunks[Len(chunker.chunks)]) < chunker.max_tokens
    /\ Len(chunker.chunks[1]) = chunker.max_tokens


(***************************************************************************)
(* Batching in ingest_dir (SpecIngest).                                    *)
(***************************************************************************)
\* The texts and the metadata handed to index_batch, call after call.
HandedTexts ==
    Flatten([b \in 1..Len(ingest.batches) |-> ingest.batches[b].texts])

HandedMetas ==
    Flatten([b \in 1..Len(ingest.batches) |-> ingest.batches[b].metas])

\* The texts of the chunks of the walk, in walk order.
WalkTexts(docs) ==
    Flatten([f \in 1..Len(docs) |-> FileChunks(docs[f])])

\* C28: when ingest_dir has returned, index_batch was handed every chunk of
\* every supported file exactly once and in walk order, every batch but the
\* last held exactly BATCH_SIZE texts and the last between one and
\* BATCH_SIZE, each text came with one metadata entry, and the chunk_id of
\* an entry is the 0-based position of the chunk within its own file.
C28_EveryChunkBatchedOnceInOrder ==
    ingest.pc \in {"persist", "done"} =>
        /\ HandedTexts = WalkTexts(ingest.docs)
        /\ ingest.batch_texts = <<>> \/ ingest.batches # <<>>
        /\ Len(HandedMetas) = Len(AllChunkIds(ingest.docs))
        /\ \A i \in 1..Len(HandedMetas) :
              LET c == AllChunkIds(ingest.docs)[i]
              IN  /\ HandedMetas[i].chunk_id = c.idx
                  /\ HandedMetas[i].source = Locator("path", c.file)
        /\ \A b \in 1..Len(ingest.batches) :
              /\ Len(ingest.batches[b].texts) = Len(ingest.batches[b].metas)
              /\ Len(ingest.batches[b].texts) \in 1..BatchSize
              /\ b < Len(ingest.batches) => Len(ingest.batches[b].texts) = BatchSize

\* A returned run whose first batch spans two files and whose last batch is
\* short.
C28_Witness ==
    /\ ingest.pc \in {"persist", "done"}
    /\ Len(ingest.batches) >= 2
    /\ ingest.batches[1].metas[1].source # ingest.batches[1].metas[BatchSize].source
    /\ Len(ingest.batches[Len(ingest.batches)].texts) < BatchSize


(***************************************************************************)
(* The files of res/model/ (SpecDeploy).                                   *)
(***************************************************************************)
\* The index file and the metadata file of a run over docs in which every
\* chunk was indexed once.
EntriesOnce(docs) ==
    LET ids == AllChunkIds(docs)
    IN  [ntotal |-> Len(ids),
         chunks |-> [i \in 1..Len(ids) |->
                       [chunk_id |-> JsonDumpInt(ids[i].idx),
                        text |-> JsonDumpString(Decode(ChunkText(docs, ids[i])))]]]

PersistedChunks ==
    [i \in 1..Len(disk[ScriptMetaPath].records) |->
        [chunk_id |-> disk[ScriptMetaPath].records[i].chunk_id,
         text |-> disk[ScriptMetaPath].records[i].text]]

C29_ServerServesIngestedEntries ==
    (ingest.pc = "done" /\ call.op = "construct") =>
        /\ index.xb = ingest.xb
        /\ metadata = StoredRecords(ingest.metadata)


(***************************************************************************)
(* Properties of the chat route (SpecChat).                                *)
(***************************************************************************)
\* The calls of a request that are op, returned or raised.
CallsOf(r, op) ==
    {i \in 1..Len(chat[r].calls) : chat[r].calls[i].op = op}

\* The search on the embedding of augmented_query has returned: the only
\* search of a request without image, the second of one with an image.
FinalSearchReturned(r) ==
    Cardinality({i \in CallsOf(r, "search") : chat[r].calls[i].ok})
        = (IF chat[r].image = "none" THEN 1 ELSE 2)

\* C21: when the searches of a request return no qualifying hit, the
\* handler answers with the fixed answer for missing context, no links and
\* the success status, and calls neither generate_excerpts nor
\* build_prompt nor the completion service.
C21_NoHitsAnsweredWithoutCompletion ==
    \A r \in Requests :
        (FinalSearchReturned(r) /\ chat[r].relevant = <<>>)
            => /\ chat[r].pc = "done"
               /\ chat[r].status = 200
               /\ chat[r].answer = "no_context"
               /\ chat[r].links = <<>>
               /\ CallsOf(r, "generate_excerpts") = {}
               /\ CallsOf(r, "build_prompt") = {}
               /\ CallsOf(r, "generate_response") = {}

\* A request with an image both of whose searches found nothing in an index
\* that holds vectors.
C21_Witness ==
    \E r \in Requests :
        /\ chat[r].image = "ok"
        /\ FinalSearchReturned(r)
        /\ chat[r].relevant = <<>>
        /\ ntotal(index) > 0

\* The methods of the index, and the services, a request may call.
QueryPathCalls ==
    {"ocr", "embed", "search", "generate_excerpts", "build_prompt", "generate_response"}

\* C22: whatever the interleaving of the requests, no step of a handler
\* changes the stored vectors, the metadata list or the files, and the
\* handlers call search and generate_excerpts only, never add_embeddings,
\* load_index or save_index.
C22_QueryPathIsReadOnly ==
    [][/\ index' = index
       /\ metadata' = metadata
       /\ files' = files
       /\ saved' = saved
       /\ \A r \in Requests : \A i \in 1..Len(chat'[r].calls) :
             chat'[r].calls[i].op \in QueryPathCalls]_vars

\* Two requests that both searched an index holding vectors and assembled
\* excerpts, and are answered.
C22_Witness ==
    /\ ntotal(index) > 0
    /\ \A r \in Requests :
          /\ chat[r].pc = "done"
          /\ CallsOf(r, "generate_excerpts") # {}

\* C30: a request with an image one of whose image-branch steps fails (the
\* OCR, the embedding of the question, the first search), and a request
\* without image whose question is empty, are answered with status 400, and
\* the handler makes no call after the failure (none at all for the empty
\* question).
C30_ImageBranchFailureIs400 ==
    \A r \in Requests :
        /\ (chat[r].image # "none"
               /\ \E i \in 1..Len(chat[r].calls) : i <= 3 /\ ~chat[r].calls[i].ok)
              => /\ chat[r].pc = "done"
                 /\ chat[r].status = 400
                 /\ \A i \in 1..(Len(chat[r].calls) - 1) : chat[r].calls[i].ok
        /\ (chat[r].image = "none" /\ chat[r].question = <<>> /\ chat[r].pc # "start")
              => /\ chat[r].pc = "done"
                 /\ chat[r].status = 400
                 /\ chat[r].calls = <<>>

\* A request whose first search raised, next to a request without image and
\* with an empty question that was answered.
C30_Witness ==
    \E r, e \in Requests :
        /\ chat[r].image = "ok"
        /\ chat[r].calls = <<Made("ocr", TRUE), Made("embed", TRUE), Made("search", FALSE)>>
        /\ chat[e].image = "none"
        /\ chat[e].question = <<>>
        /\ chat[e].pc = "done"

====
